---- MODULE Spec2Model ----
(***************************************************************************)
(* Model of .github/workflows/scripts/validate_taxonomy.py: the JSON-LD     *)
(* taxonomy validator (JSONLDParser + TaxonomyValidator).                   *)
(*                                                                         *)
(* Text is a sequence of one-character strings, so that split(), the `in`   *)
(* substring test and the regular expressions are computed and not assumed. *)
(* Documents contain no backslash escapes.                                  *)
(***************************************************************************)
EXTENDS Integers, Sequences, FiniteSets, TLC

\* ------------------------------------------------------------------ bounds
MaxNodes == 2   \* graph entries in a generated document
MaxRuns == 2    \* calls of validate() on one TaxonomyValidator instance

\* ------------------------------------------------------- character classes
Lower == {"a","b","c","d","e","f","g","h","i","j","k","l","m",
          "n","o","p","q","r","s","t","u","v","w","x","y","z"}
Upper == {"A","B","C","D","E","F","G","H","I","J","K","L","M",
          "N","O","P","Q","R","S","T","U","V","W","X","Y","Z"}
Digit == {"0","1","2","3","4","5","6","7","8","9"}
Letter == Lower \cup Upper
AlNum == Letter \cup Digit
Ws == {" ", "\n"}

\* ------------------------------------------------------- str primitives
\* Python: needle in hay (substring test on str)
Contains(hay, needle) ==
    \E i \in 0..(Len(hay) - Len(needle)) :
        SubSeq(hay, i + 1, i + Len(needle)) = needle

\* index of the first occurrence of character c in s, 0 when absent
IndexOf(s, c) ==
    IF \E i \in 1..Len(s) : s[i] = c
    THEN CHOOSE i \in 1..Len(s) : s[i] = c /\ \A j \in 1..(i - 1) : s[j] /= c
    ELSE 0

\* Python: s.split(c), a non-empty list of segments
RECURSIVE Split(_, _)
Split(s, c) ==
    LET i == IndexOf(s, c) IN
    IF i = 0 THEN << s >>
    ELSE << SubSeq(s, 1, i - 1) >> \o Split(SubSeq(s, i + 1, Len(s)), c)

Last(q) == q[Len(q)]

\* ------------------------------------------------------------ JSON values
\* tagged union over {mapping, sequence, scalar}; items holds the entries of
\* a mapping ([k, v], insertion order) or of a sequence ([k = <<>>, v]).
StrVal(s) == [t |-> "str", s |-> s, items |-> << >>]
NumVal(s) == [t |-> "num", s |-> s, items |-> << >>]
LitVal(s) == [t |-> "lit", s |-> s, items |-> << >>]
ArrVal(items) == [t |-> "arr", s |-> << >>, items |-> items]
ObjVal(items) == [t |-> "obj", s |-> << >>, items |-> items]
EmptyDict == ObjVal(<< >>)
Item(k, v) == [k |-> k, v |-> v]

HasKey(d, k) == \E i \in 1..Len(d.items) : d.items[i].k = k
Lookup(d, k) == d.items[CHOOSE i \in 1..Len(d.items) : d.items[i].k = k].v

\* dict(pairs): a repeated key keeps its first position and its last value
DictPut(items, k, v) ==
    IF \E i \in 1..Len(items) : items[i].k = k
    THEN [i \in 1..Len(items) |->
            IF items[i].k = k THEN Item(k, v) ELSE items[i]]
    ELSE Append(items, Item(k, v))

\* ------------------------------------------------------------ json.loads
\* Results: [ok, val, end, msg]; end is the index after the value, or the
\* index of the error when ok is FALSE (msg names the JSONDecodeError).
Good(val, end) == [ok |-> TRUE, val |-> val, end |-> end, msg |-> ""]
Bad(msg, pos) == [ok |-> FALSE, val |-> LitVal(<< >>), end |-> pos, msg |-> msg]

CharAt(T, p) == IF p >= 1 /\ p <= Len(T) THEN T[p] ELSE ""

RECURSIVE SkipWs(_, _)
SkipWs(T, p) == IF CharAt(T, p) \in Ws THEN SkipWs(T, p + 1) ELSE p

\* py_scanstring, p is the index after the opening quote
ScanString(T, p) ==
    IF \E q \in p..Len(T) : T[q] = "\""
    THEN LET q == CHOOSE q \in p..Len(T) :
                    T[q] = "\"" /\ \A r \in p..(q - 1) : T[r] /= "\""
         IN  IF \E r \in p..(q - 1) : T[r] = "\n"
             THEN Bad("Invalid control character at",
                      CHOOSE r \in p..(q - 1) :
                          T[r] = "\n" /\ \A u \in p..(r - 1) : T[u] /= "\n")
             ELSE Good(StrVal(SubSeq(T, p, q - 1)), q + 1)
    ELSE Bad("Unterminated string starting at", p - 1)

RECURSIVE DigitsEnd(_, _)
DigitsEnd(T, p) == IF CharAt(T, p) \in Digit THEN DigitsEnd(T, p + 1) ELSE p

Literals == << <<"n","u","l","l">>, <<"t","r","u","e">>, <<"f","a","l","s","e">> >>
IsLiteralAt(T, p, w) == p + Len(w) - 1 <= Len(T) /\ SubSeq(T, p, p + Len(w) - 1) = w

RECURSIVE ScanOnce(_, _)
RECURSIVE ObjectLoop(_, _, _)
RECURSIVE ArrayLoop(_, _, _)

\* JSONObject, p is the index after '{'
JSONObject(T, p) ==
    LET q == IF CharAt(T, p) = "\"" THEN p ELSE SkipWs(T, p) IN
    IF CharAt(T, q) = "}" THEN Good(EmptyDict, q + 1)
    ELSE IF CharAt(T, q) /= "\""
    THEN Bad("Expecting property name enclosed in double quotes", q)
    ELSE ObjectLoop(T, q + 1, << >>)

\* one turn of JSONObject's while loop, p is the index after the key's quote
ObjectLoop(T, p, pairs) ==
    LET key == ScanString(T, p) IN
    IF ~key.ok THEN key ELSE
    LET c == SkipWs(T, key.end) IN
    IF CharAt(T, c) /= ":" THEN Bad("Expecting ':' delimiter", c) ELSE
    LET value == ScanOnce(T, SkipWs(T, c + 1)) IN
    IF ~value.ok THEN value ELSE
    LET d == SkipWs(T, value.end)
        pairs2 == DictPut(pairs, key.val.s, value.val)
    IN
    IF CharAt(T, d) = "}" THEN Good(ObjVal(pairs2), d + 1)
    ELSE IF CharAt(T, d) /= "," THEN Bad("Expecting ',' delimiter", d)
    ELSE LET k == SkipWs(T, d + 1) IN
         IF CharAt(T, k) /= "\""
         THEN Bad("Expecting property name enclosed in double quotes", k)
         ELSE ObjectLoop(T, k + 1, pairs2)

\* JSONArray, p is the index after '['
JSONArray(T, p) ==
    LET q == SkipWs(T, p) IN
    IF CharAt(T, q) = "]" THEN Good(ArrVal(<< >>), q + 1)
    ELSE ArrayLoop(T, q, << >>)

\* one turn of JSONArray's while loop
ArrayLoop(T, p, values) ==
    LET value == ScanOnce(T, p) IN
    IF ~value.ok THEN value ELSE
    LET d == SkipWs(T, value.end)
        values2 == Append(values, Item(<< >>, value.val))
    IN
    IF CharAt(T, d) = "]" THEN Good(ArrVal(values2), d + 1)
    ELSE IF CharAt(T, d) /= "," THEN Bad("Expecting ',' delimiter", d)
    ELSE ArrayLoop(T, SkipWs(T, d + 1), values2)

\* scan_once; StopIteration(idx) surfaces as "Expecting value" at idx
ScanOnce(T, p) ==
    LET ch == CharAt(T, p) IN
    IF ch = "\"" THEN ScanString(T, p + 1)
    ELSE IF ch = "{" THEN JSONObject(T, p + 1)
    ELSE IF ch = "[" THEN JSONArray(T, p + 1)
    ELSE IF \E i \in 1..Len(Literals) : IsLiteralAt(T, p, Literals[i])
    THEN LET w == Literals[CHOOSE i \in 1..Len(Literals) :
                                IsLiteralAt(T, p, Literals[i])]
         IN  Good(LitVal(w), p + Len(w))
    ELSE IF ch = "0" THEN Good(NumVal(<<"0">>), p + 1)
    ELSE IF ch \in Digit
    THEN LET e == DigitsEnd(T, p) IN Good(NumVal(SubSeq(T, p, e - 1)), e)
    ELSE Bad("Expecting value", p)

\* JSONDecodeError.lineno: doc.count('\n', 0, pos) + 1
LineOf(T, p) == Cardinality({i \in 1..(p - 1) : i <= Len(T) /\ T[i] = "\n"}) + 1

\* json.loads(content): [ok, val, msg, lineno]
JsonLoads(T) ==
    LET r == ScanOnce(T, SkipWs(T, 1)) IN
    IF ~r.ok
    THEN [ok |-> FALSE, val |-> r.val, msg |-> r.msg, lineno |-> LineOf(T, r.end)]
    ELSE LET e == SkipWs(T, r.end) IN
         IF e /= Len(T) + 1
         THEN [ok |-> FALSE, val |-> r.val, msg |-> "Extra data", lineno |-> LineOf(T, e)]
         ELSE [ok |-> TRUE, val |-> r.val, msg |-> "", lineno |-> 0]


\* ----------------------------------------------------------- JSONLDParser
Marker == <<"\"","@","i","d","\"">>
K_id == <<"@","i","d">>
K_type == <<"@","t","y","p","e">>
K_graph == <<"@","g","r","a","p","h">>
Concept == <<"s","k","o","s",":","C","o","n","c","e","p","t">>

\* _map_ids_to_lines: the dict {line_num: line}, as [num, line] entries in
\* insertion order, which is ascending line order
RECURSIVE IdLinesFrom(_, _)
IdLinesFrom(lines, i) ==
    IF i > Len(lines) THEN << >>
    ELSE (IF Contains(lines[i], Marker)
          THEN << [num |-> i, line |-> lines[i]] >> ELSE << >>)
         \o IdLinesFrom(lines, i + 1)

map_ids_to_lines(content) == IdLinesFrom(Split(content, "\n"), 1)

\* variant: the last matching entry instead of the first
get_line_number_last(id_lines, uri) ==
    IF \E i \in 1..Len(id_lines) : Contains(id_lines[i].line, uri)
    THEN id_lines[CHOOSE i \in 1..Len(id_lines) :
                     /\ Contains(id_lines[i].line, uri)
                     /\ \A j \in (i + 1)..Len(id_lines) : ~Contains(id_lines[j].line, uri)].num
    ELSE 0

\* get_line_number: first entry of id_lines whose line contains uri, else 0
get_line_number(id_lines, uri) ==
    IF \E i \in 1..Len(id_lines) : Contains(id_lines[i].line, uri)
    THEN id_lines[CHOOSE i \in 1..Len(id_lines) :
                     /\ Contains(id_lines[i].line, uri)
                     /\ \A j \in 1..(i - 1) : ~Contains(id_lines[j].line, uri)].num
    ELSE 0

Raise(e) == [exc |-> e, node |-> EmptyDict]
Found(n) == [exc |-> "", node |-> n]

\* next(node for node in graph if node.get('@id') == uri), {}) over a list:
\* an entry that is not a mapping has no .get
RECURSIVE FirstNode(_, _, _)
FirstNode(items, i, uri) ==
    IF i > Len(items) THEN Found(EmptyDict)
    ELSE LET node == items[i].v IN
         IF node.t /= "obj" THEN Raise("AttributeError")
         ELSE IF HasKey(node, K_id) /\ Lookup(node, K_id) = StrVal(uri)
         THEN Found(node)
         ELSE FirstNode(items, i + 1, uri)

\* get_node: [exc, node]; exc is "" when the call returns
get_node(data, uri) ==
    IF data.t = "obj" /\ ~HasKey(data, K_graph) THEN Found(EmptyDict)
    ELSE IF data.t = "arr" /\ ~(\E i \in 1..Len(data.items) :
                                    data.items[i].v = StrVal(K_graph))
    THEN Found(EmptyDict)
    ELSE IF data.t /= "obj" THEN Raise("TypeError")
    ELSE LET graph == Lookup(data, K_graph) IN
         IF graph.t = "arr" THEN FirstNode(graph.items, 1, uri)
         ELSE IF graph.t = "obj"
         THEN (IF Len(graph.items) = 0 THEN Found(EmptyDict)
               ELSE Raise("AttributeError"))
         ELSE IF graph.t = "str"
         THEN (IF Len(graph.s) = 0 THEN Found(EmptyDict)
               ELSE Raise("AttributeError"))
         ELSE Raise("TypeError")

\* -------------------------------------------------------- NamingPattern
\* ^(?:dfc-m:)?[first][a-zA-Z0-9]*$ ; pattern is the class of the first
\* character, the rest of the expression is common to the three patterns
Prefix == <<"d","f","c","-","m",":">>
ALPHANUM == [pattern |-> Letter, message |-> "Must be alphanumeric starting with a letter"]
PASCAL == [pattern |-> Upper, message |-> "Concepts must use PascalCase"]
CAMEL == [pattern |-> Lower, message |-> "Properties must use camelCase"]

\* [first][a-zA-Z0-9]*$ ; $ also matches before a final newline
MatchBody(first, s) ==
    LET core == IF Len(s) >= 1 /\ s[Len(s)] = "\n"
                THEN SubSeq(s, 1, Len(s) - 1) ELSE s
    IN  /\ Len(core) >= 1
        /\ core[1] \in first
        /\ \A i \in 2..Len(core) : core[i] \in AlNum

\* re.match(pattern, identifier)
ReMatch(np, s) ==
    \/ /\ Len(s) >= Len(Prefix)
       /\ SubSeq(s, 1, Len(Prefix)) = Prefix
       /\ MatchBody(np.pattern, SubSeq(s, Len(Prefix) + 1, Len(s)))
    \/ MatchBody(np.pattern, s)

\* ------------------------------------------------------ TaxonomyValidator
ValidationError(message, identifier, line) ==
    [message |-> message, identifier |-> identifier, line |-> line]

\* _get_identifier, for a str uri
get_identifier(uri) ==
    IF Contains(Last(Split(uri, "/")), <<"#">>)
    THEN Last(Split(Last(Split(uri, "/")), "#"))
    ELSE << >>

\* _extract_uris: the '@id' values in pre-order (values of any JSON type)
RECURSIVE extract_uris(_)
RECURSIVE ExtractEach(_, _)
ExtractEach(items, i) ==
    IF i > Len(items) THEN << >>
    ELSE extract_uris(items[i].v) \o ExtractEach(items, i + 1)

extract_uris(data) ==
    IF data.t = "obj"
    THEN (IF HasKey(data, K_id) THEN << Lookup(data, K_id) >> ELSE << >>)
         \o ExtractEach(data.items, 1)
    ELSE IF data.t = "arr" THEN ExtractEach(data.items, 1)
    ELSE << >>

\* 'skos:Concept' in node.get('@type', []): [exc, val]
TypeHasConcept(node) ==
    IF ~HasKey(node, K_type) THEN [exc |-> "", val |-> FALSE]
    ELSE LET ty == Lookup(node, K_type) IN
         IF ty.t = "arr"
         THEN [exc |-> "", val |-> \E i \in 1..Len(ty.items) :
                                      ty.items[i].v = StrVal(Concept)]
         ELSE IF ty.t = "str"
         THEN [exc |-> "", val |-> Contains(ty.s, Concept)]
         ELSE IF ty.t = "obj"
         THEN [exc |-> "", val |-> HasKey(ty, Concept)]
         ELSE [exc |-> "TypeError", val |-> FALSE]

Outcome(exc, ok, errs) == [exc |-> exc, ok |-> ok, errs |-> errs]

\* variant: the alphanumeric failure does not return, the concept check runs too
validate_naming_patterns_noreturn(parser, uri, identifier) ==
    LET n == get_node(parser.data, uri)
        line == get_line_number(parser.id_lines, uri)
        first == IF ~ReMatch(ALPHANUM, identifier)
                 THEN << ValidationError(ALPHANUM.message, identifier, line) >>
                 ELSE << >>
    IN
    IF n.exc /= "" THEN Outcome(n.exc, FALSE, << >>)
    ELSE LET c == TypeHasConcept(n.node) IN
         IF c.exc /= "" THEN Outcome(c.exc, FALSE, << >>)
         ELSE IF c.val /\ ~ReMatch(PASCAL, identifier)
         THEN Outcome("", FALSE,
                      Append(first, ValidationError(PASCAL.message, identifier, line)))
         ELSE Outcome("", first = << >>, first)

\* variant: the PascalCase failure returns False without recording an error
validate_naming_patterns_silent(parser, uri, identifier) ==
    LET n == get_node(parser.data, uri)
        line == get_line_number(parser.id_lines, uri)
    IN
    IF n.exc /= "" THEN Outcome(n.exc, FALSE, << >>)
    ELSE IF ~ReMatch(ALPHANUM, identifier)
    THEN Outcome("", FALSE, << ValidationError(ALPHANUM.message, identifier, line) >>)
    ELSE LET c == TypeHasConcept(n.node) IN
         IF c.exc /= "" THEN Outcome(c.exc, FALSE, << >>)
         ELSE IF c.val /\ ~ReMatch(PASCAL, identifier)
         THEN Outcome("", FALSE, << >>)
         ELSE Outcome("", TRUE, << >>)

\* _validate_naming_patterns: [exc, ok, errs]; errs are the records appended
validate_naming_patterns(parser, uri, identifier) ==
    LET n == get_node(parser.data, uri)
        line == get_line_number(parser.id_lines, uri)
    IN
    IF n.exc /= "" THEN Outcome(n.exc, FALSE, << >>)
    ELSE IF ~ReMatch(ALPHANUM, identifier)
    THEN Outcome("", FALSE, << ValidationError(ALPHANUM.message, identifier, line) >>)
    ELSE LET c == TypeHasConcept(n.node) IN
         IF c.exc /= "" THEN Outcome(c.exc, FALSE, << >>)
         ELSE IF c.val /\ ~ReMatch(PASCAL, identifier)
         THEN Outcome("", FALSE, << ValidationError(PASCAL.message, identifier, line) >>)
         ELSE Outcome("", TRUE, << >>)


\* -------------------------------------------------------------- documents
\* Raw texts the validator is run on. Graph entries (one per line unless the
\* entry itself holds a line break):
\*   {"@id":"h/v#Kilo","@type":["skos:Concept"]}
N_KiloConcept ==
    <<"{","\"","@","i","d","\"",":","\"","h","/","v","#","K","i","l","o","\"",",","\"","@","t","y","p","e","\"",":","[","\"","s","k","o","s",":","C","o","n","c","e","p","t","\"","]","}">>
\*   {"@id":"h/v#kilo","@type":["skos:Concept"]}
N_kiloConcept ==
    <<"{","\"","@","i","d","\"",":","\"","h","/","v","#","k","i","l","o","\"",",","\"","@","t","y","p","e","\"",":","[","\"","s","k","o","s",":","C","o","n","c","e","p","t","\"","]","}">>
\*   {"@id":"h/v#k_g","@type":["skos:Concept"]}
N_k_gConcept ==
    <<"{","\"","@","i","d","\"",":","\"","h","/","v","#","k","_","g","\"",",","\"","@","t","y","p","e","\"",":","[","\"","s","k","o","s",":","C","o","n","c","e","p","t","\"","]","}">>
\*   {"@id":"h/w#kilo"}
N_wkilo ==
    <<"{","\"","@","i","d","\"",":","\"","h","/","w","#","k","i","l","o","\"","}">>
\*   {"@id":"h/v#kilo","@type":"skos:ConceptScheme"}
N_kiloSchemeStr ==
    <<"{","\"","@","i","d","\"",":","\"","h","/","v","#","k","i","l","o","\"",",","\"","@","t","y","p","e","\"",":","\"","s","k","o","s",":","C","o","n","c","e","p","t","S","c","h","e","m","e","\"","}">>
\*   {"@id":"h/v#k_"}
N_k_ ==
    <<"{","\"","@","i","d","\"",":","\"","h","/","v","#","k","_","\"","}">>
\*   {"p":[{"@id":"h/v#kilo"},{"@id":"h/v#1k"}]}
N_nested ==
    <<"{","\"","p","\"",":","[","{","\"","@","i","d","\"",":","\"","h","/","v","#","k","i","l","o","\"","}",",","{","\"","@","i","d","\"",":","\"","h","/","v","#","1","k","\"","}","]","}">>
\*   {"@id":"ex:lowerConcept","@type":["skos:Concept"]}
N_exLower ==
    <<"{","\"","@","i","d","\"",":","\"","e","x",":","l","o","w","e","r","C","o","n","c","e","p","t","\"",",","\"","@","t","y","p","e","\"",":","[","\"","s","k","o","s",":","C","o","n","c","e","p","t","\"","]","}">>
\*   {"@id":"ex:Invalid_Name"}
N_exInvalid ==
    <<"{","\"","@","i","d","\"",":","\"","e","x",":","I","n","v","a","l","i","d","_","N","a","m","e","\"","}">>
\*   {"@id":"h/v#kilo","@type":5}
N_typeNum ==
    <<"{","\"","@","i","d","\"",":","\"","h","/","v","#","k","i","l","o","\"",",","\"","@","t","y","p","e","\"",":","5","}">>
\*   {"@id":5}
N_idNum ==
    <<"{","\"","@","i","d","\"",":","5","}">>
\*   {"@id":"h/v#dfc-m:Kilo","@type":["skos:Concept"]}
N_prefixConcept ==
    <<"{","\"","@","i","d","\"",":","\"","h","/","v","#","d","f","c","-","m",":","K","i","l","o","\"",",","\"","@","t","y","p","e","\"",":","[","\"","s","k","o","s",":","C","o","n","c","e","p","t","\"","]","}">>
\*   {"@id":"h/w#kilo","@type":["skos:ConceptScheme"]}
N_kiloSchemeArr ==
    <<"{","\"","@","i","d","\"",":","\"","h","/","w","#","k","i","l","o","\"",",","\"","@","t","y","p","e","\"",":","[","\"","s","k","o","s",":","C","o","n","c","e","p","t","S","c","h","e","m","e","\"","]","}">>
\*   {"@id":"h/v#kilo","@type":"skos:Concept"}
N_kiloConceptStr ==
    <<"{","\"","@","i","d","\"",":","\"","h","/","v","#","k","i","l","o","\"",",","\"","@","t","y","p","e","\"",":","\"","s","k","o","s",":","C","o","n","c","e","p","t","\"","}">>
\*   {"@id":\n"h/v#k_g"}
N_splitLines ==
    <<"{","\"","@","i","d","\"",":","\n","\"","h","/","v","#","k","_","g","\"","}">>
\*   {"@id":"h/v#","x":{"@id":"h#x/k_g"}}
N_emptyLocal ==
    <<"{","\"","@","i","d","\"",":","\"","h","/","v","#","\"",",","\"","x","\"",":","{","\"","@","i","d","\"",":","\"","h","#","x","/","k","_","g","\"","}","}">>

NodePool ==
    << N_KiloConcept,
       N_kiloConcept,
       N_k_gConcept,
       N_wkilo,
       N_kiloSchemeStr,
       N_k_,
       N_nested,
       N_exLower,
       N_exInvalid,
       N_typeNum,
       N_idNum,
       N_prefixConcept,
       N_kiloSchemeArr,
       N_kiloConceptStr,
       N_splitLines,
       N_emptyLocal >>

RECURSIVE JoinNodes(_, _)
JoinNodes(ns, i) ==
    IF i > Len(ns) THEN << >>
    ELSE NodePool[ns[i]] \o (IF i < Len(ns) THEN <<",">> ELSE << >>) \o <<"\n">>
         \o JoinNodes(ns, i + 1)

\* {"@graph":[ <newline> entry, <newline> entry <newline> ]}
GraphDoc(ns) ==
    <<"{","\"","@","g","r","a","p","h","\"",":","[","\n">>
        \o JoinNodes(ns, 1) \o <<"]","}">>

GraphDocs ==
    { GraphDoc(ns) : ns \in UNION { [1..n -> 1..Len(NodePool)] : n \in 0..MaxNodes } }

\* Other texts: malformed JSON, documents without a graph list, and graph
\* values of other JSON types:
\*   {"@graph":[],}
D_trailingComma ==
    <<"{","\"","@","g","r","a","p","h","\"",":","[","]",",","}">>
\*   {"@graph":[\n{"@id":"h/v#k_g"}
D_unbalanced ==
    <<"{","\"","@","g","r","a","p","h","\"",":","[","\n","{","\"","@","i","d","\"",":","\"","h","/","v","#","k","_","g","\"","}">>
\*   
D_empty ==
    <<>>
\*   {"@graph":[]}\n}
D_extraData ==
    <<"{","\"","@","g","r","a","p","h","\"",":","[","]","}","\n","}">>
\*   {"@graph":[\n{"@id":"h/v#k_g"},\n]}
D_arrayComma ==
    <<"{","\"","@","g","r","a","p","h","\"",":","[","\n","{","\"","@","i","d","\"",":","\"","h","/","v","#","k","_","g","\"","}",",","\n","]","}">>
\*   {"@graph":[\n{"@id":"h/v#k_g}]}
D_unterminated ==
    <<"{","\"","@","g","r","a","p","h","\"",":","[","\n","{","\"","@","i","d","\"",":","\"","h","/","v","#","k","_","g","}","]","}">>
\*   {"@id":"h/v#k_g"}
D_noGraph ==
    <<"{","\"","@","i","d","\"",":","\"","h","/","v","#","k","_","g","\"","}">>
\*   [{"@id":"h/v#1k"}]
D_topList ==
    <<"[","{","\"","@","i","d","\"",":","\"","h","/","v","#","1","k","\"","}","]">>
\*   ["@graph",{"@id":"h/v#kilo"}]
D_topListGraph ==
    <<"[","\"","@","g","r","a","p","h","\"",",","{","\"","@","i","d","\"",":","\"","h","/","v","#","k","i","l","o","\"","}","]">>
\*   {"@graph":{"@id":"h/v#kilo"}}
D_graphObject ==
    <<"{","\"","@","g","r","a","p","h","\"",":","{","\"","@","i","d","\"",":","\"","h","/","v","#","k","i","l","o","\"","}","}">>
\*   {"@graph":[5,\n{"@id":"h/v#kilo"}]}
D_graphScalarItem ==
    <<"{","\"","@","g","r","a","p","h","\"",":","[","5",",","\n","{","\"","@","i","d","\"",":","\"","h","/","v","#","k","i","l","o","\"","}","]","}">>
\*   {"@id":"h/v#kilo","@graph":5}
D_graphNumber ==
    <<"{","\"","@","i","d","\"",":","\"","h","/","v","#","k","i","l","o","\"",",","\"","@","g","r","a","p","h","\"",":","5","}">>
\*   5
D_scalar ==
    <<"5">>
\*    null\n
D_null ==
    <<" ","n","u","l","l","\n">>
\*   {"@graph":[{"@id":"h/v#kilo","@type":{"skos:Concept":true}}]}
D_typeObject ==
    <<"{","\"","@","g","r","a","p","h","\"",":","[","{","\"","@","i","d","\"",":","\"","h","/","v","#","k","i","l","o","\"",",","\"","@","t","y","p","e","\"",":","{","\"","s","k","o","s",":","C","o","n","c","e","p","t","\"",":","t","r","u","e","}","}","]","}">>
\*   {"@graph":[{"@id":"h/v#Kilo","@id":"h/v#k_g"}]}
D_dupKey ==
    <<"{","\"","@","g","r","a","p","h","\"",":","[","{","\"","@","i","d","\"",":","\"","h","/","v","#","K","i","l","o","\"",",","\"","@","i","d","\"",":","\"","h","/","v","#","k","_","g","\"","}","]","}">>
\*   {"@graph":[{"x":"h/v#k_ @id",\n"y":"@id",\n"@id":"h/v#k_"}]}
D_markerInValue ==
    <<"{","\"","@","g","r","a","p","h","\"",":","[","{","\"","x","\"",":","\"","h","/","v","#","k","_"," ","@","i","d","\"",",","\n","\"","y","\"",":","\"","@","i","d","\"",",","\n","\"","@","i","d","\"",":","\"","h","/","v","#","k","_","\"","}","]","}">>
\*   {"@graph":[{"@id":"ex:validProp"}]}
D_validProp ==
    <<"{","\"","@","g","r","a","p","h","\"",":","[","{","\"","@","i","d","\"",":","\"","e","x",":","v","a","l","i","d","P","r","o","p","\"","}","]","}">>
\*   {"@graph":[{"@id":"ex:Invalid_Name"}]}
D_InvalidName ==
    <<"{","\"","@","g","r","a","p","h","\"",":","[","{","\"","@","i","d","\"",":","\"","e","x",":","I","n","v","a","l","i","d","_","N","a","m","e","\"","}","]","}">>
\*   {"@graph":[{"@id":"ex:lowerConcept","@type":["skos:Concept"]}]}
D_lowerConcept ==
    <<"{","\"","@","g","r","a","p","h","\"",":","[","{","\"","@","i","d","\"",":","\"","e","x",":","l","o","w","e","r","C","o","n","c","e","p","t","\"",",","\"","@","t","y","p","e","\"",":","[","\"","s","k","o","s",":","C","o","n","c","e","p","t","\"","]","}","]","}">>
\*   {"@graph":[{"@id":"ex:PascalConcept","@type":["skos:Concept"]}]}
D_PascalConcept ==
    <<"{","\"","@","g","r","a","p","h","\"",":","[","{","\"","@","i","d","\"",":","\"","e","x",":","P","a","s","c","a","l","C","o","n","c","e","p","t","\"",",","\"","@","t","y","p","e","\"",":","[","\"","s","k","o","s",":","C","o","n","c","e","p","t","\"","]","}","]","}">>
\*   {"@graph":[{"p":{"@id":"h/w#kilo"},"@id":"h/v#Kilo"},\n{"@id":"h/v#kilo","@type":["skos:Concept"]}]}
D_preorder ==
    <<"{","\"","@","g","r","a","p","h","\"",":","[","{","\"","p","\"",":","{","\"","@","i","d","\"",":","\"","h","/","w","#","k","i","l","o","\"","}",",","\"","@","i","d","\"",":","\"","h","/","v","#","K","i","l","o","\"","}",",","\n","{","\"","@","i","d","\"",":","\"","h","/","v","#","k","i","l","o","\"",",","\"","@","t","y","p","e","\"",":","[","\"","s","k","o","s",":","C","o","n","c","e","p","t","\"","]","}","]","}">>

SpecialDocs ==
    { D_trailingComma,
      D_unbalanced,
      D_empty,
      D_extraData,
      D_arrayComma,
      D_unterminated,
      D_noGraph,
      D_topList,
      D_topListGraph,
      D_graphObject,
      D_graphScalarItem,
      D_graphNumber,
      D_scalar,
      D_null,
      D_typeObject,
      D_dupKey,
      D_markerInValue,
      D_validProp,
      D_InvalidName,
      D_lowerConcept,
      D_PascalConcept,
      D_preorder }

Documents == GraphDocs \cup SpecialDocs


\* ------------------------------------------------------------------ state
VARIABLES
    content,      \* raw text of the file at file_path (never modified)
    pc,           \* "idle" | "loop" (inside _validate_uris) | "done" | "raised"
    parser,       \* self.parser: [id_lines, data]
    errors,       \* self.errors: sequence of ValidationError
    uris,         \* the list returned by _extract_uris
    idx,          \* position of the for loop in uris
    seen_uris,    \* the set seen_uris of _validate_uris
    is_valid,     \* the flag is_valid of _validate_uris
    result,       \* what validate() returned: "none" | "True" | "False"
    exc,          \* exception that left validate(), "" when none
    runs,         \* number of calls of validate() so far
    runStart,     \* history: Len(errors) when the current call began
    evaluated,    \* history: [uri, identifier] pairs evaluated by this call
    errSrc,       \* history: per record of errors, its [uri, run]
    decodeErr,    \* history: the JSONDecodeError caught by this call
    firstErrors,  \* history: errors when the first call returned
    firstResult   \* history: result of the first call

vars == << content, pc, parser, errors, uris, idx, seen_uris, is_valid, result,
           exc, runs, runStart, evaluated, errSrc, decodeErr, firstErrors,
           firstResult >>

NoDecodeErr == [msg |-> "", lineno |-> 0]
PyBool(b) == IF b THEN "True" ELSE "False"

\* TaxonomyValidator.__init__ on a file holding one of the documents
Init ==
    /\ content \in Documents
    /\ pc = "idle"
    /\ parser = [id_lines |-> << >>, data |-> EmptyDict]
    /\ errors = << >>
    /\ uris = << >>
    /\ idx = 1
    /\ seen_uris = {}
    /\ is_valid = TRUE
    /\ result = "none"
    /\ exc = ""
    /\ runs = 0
    /\ runStart = 0
    /\ evaluated = << >>
    /\ errSrc = << >>
    /\ decodeErr = NoDecodeErr
    /\ firstErrors = << >>
    /\ firstResult = "none"

\* validate() may be called on a new instance, or again once it has returned
CanCall == (pc = "idle" \/ pc = "done") /\ runs < MaxRuns

\* JSONLDParser.__init__
JSONLDParser(text) == [id_lines |-> map_ids_to_lines(text), data |-> JsonLoads(text).val]

\* variant: the parser's line number is dropped
InvalidJSONError_noline(e) == ValidationError("Invalid JSON: " \o e.msg, << >>, 0)

\* the record appended by the except branch of validate()
InvalidJSONError(e) == ValidationError("Invalid JSON: " \o e.msg, << >>, e.lineno)

\* variant: no deduplication
Skips_nodedup(identifier, seen) == identifier = << >>

\* line 92: if not identifier or identifier in seen_uris: continue
Skips(identifier, seen) == identifier = << >> \/ identifier \in seen

RecordFirst(errs, res) ==
    /\ firstErrors' = IF runs = 1 THEN errs ELSE firstErrors
    /\ firstResult' = IF runs = 1 THEN res ELSE firstResult

\* validate(): the text parses; _validate_uris starts its loop
ValidateOpen ==
    /\ CanCall
    /\ JsonLoads(content).ok
    /\ parser' = JSONLDParser(content)
    /\ uris' = extract_uris(parser'.data)
    /\ idx' = 1
    /\ seen_uris' = {}
    /\ is_valid' = TRUE
    /\ pc' = "loop"
    /\ result' = "none"
    /\ runs' = runs + 1
    /\ runStart' = Len(errors)
    /\ evaluated' = << >>
    /\ decodeErr' = NoDecodeErr
    /\ UNCHANGED << content, errors, exc, errSrc, firstErrors, firstResult >>

\* validate(): json.loads raises JSONDecodeError; self.parser is not assigned
ValidateInvalidJSON ==
    /\ CanCall
    /\ ~JsonLoads(content).ok
    /\ LET e == JsonLoads(content) IN
        /\ errors' = Append(errors, InvalidJSONError(e))
        /\ errSrc' = Append(errSrc, [uri |-> << >>, run |-> runs + 1])
        /\ decodeErr' = [msg |-> e.msg, lineno |-> e.lineno]
        /\ firstErrors' = IF runs = 0 THEN errors' ELSE firstErrors
        /\ firstResult' = IF runs = 0 THEN "False" ELSE firstResult
    /\ result' = "False"
    /\ pc' = "done"
    /\ runs' = runs + 1
    /\ runStart' = Len(errors)
    /\ evaluated' = << >>
    /\ UNCHANGED << content, parser, uris, idx, seen_uris, is_valid, exc >>

\* loop body, lines 91-93: no identifier, or identifier already seen
SkipUri ==
    /\ pc = "loop"
    /\ idx <= Len(uris)
    /\ uris[idx].t = "str"
    /\ Skips(get_identifier(uris[idx].s), seen_uris)
    /\ idx' = idx + 1
    /\ UNCHANGED << content, pc, parser, errors, uris, seen_uris, is_valid,
                    result, exc, runs, runStart, evaluated, errSrc, decodeErr,
                    firstErrors, firstResult >>

\* loop body, lines 91-97: a new identifier is checked
CheckUri ==
    /\ pc = "loop"
    /\ idx <= Len(uris)
    /\ uris[idx].t = "str"
    /\ LET uri == uris[idx].s
           identifier == get_identifier(uri)
           o == validate_naming_patterns(parser, uri, identifier)
       IN  /\ ~Skips(identifier, seen_uris)
           /\ o.exc = ""
           /\ seen_uris' = seen_uris \cup {identifier}
           /\ errors' = errors \o o.errs
           /\ errSrc' = errSrc \o [i \in 1..Len(o.errs) |-> [uri |-> uri, run |-> runs]]
           /\ is_valid' = (is_valid /\ o.ok)
           /\ evaluated' = Append(evaluated, [uri |-> uri, identifier |-> identifier])
    /\ idx' = idx + 1
    /\ UNCHANGED << content, pc, parser, uris, result, exc, runs, runStart,
                    decodeErr, firstErrors, firstResult >>

\* loop body: an exception other than JSONDecodeError leaves validate()
RaiseUri ==
    /\ pc = "loop"
    /\ idx <= Len(uris)
    /\ \/ /\ uris[idx].t /= "str"          \* uri.split on a non-str value
          /\ exc' = "AttributeError"
          /\ UNCHANGED seen_uris
       \/ /\ uris[idx].t = "str"
          /\ LET uri == uris[idx].s
                 identifier == get_identifier(uri)
                 o == validate_naming_patterns(parser, uri, identifier)
             IN  /\ ~Skips(identifier, seen_uris)
                 /\ o.exc /= ""
                 /\ exc' = o.exc
                 /\ seen_uris' = seen_uris \cup {identifier}
    /\ pc' = "raised"
    /\ UNCHANGED << content, parser, errors, uris, idx, is_valid, result, runs,
                    runStart, evaluated, errSrc, decodeErr, firstErrors,
                    firstResult >>

\* _validate_uris returns is_valid and validate() returns it
ValidateReturn ==
    /\ pc = "loop"
    /\ idx > Len(uris)
    /\ result' = PyBool(is_valid)
    /\ pc' = "done"
    /\ RecordFirst(errors, PyBool(is_valid))
    /\ UNCHANGED << content, parser, errors, uris, idx, seen_uris, is_valid, exc,
                    runs, runStart, evaluated, errSrc, decodeErr >>

Next ==
    \/ ValidateOpen
    \/ ValidateInvalidJSON
    \/ SkipUri
    \/ CheckUri
    \/ RaiseUri
    \/ ValidateReturn

Spec == Init /\ [][Next]_vars


\* ============================================================== properties
\* the records appended to self.errors by the current call of validate()
RunErrors == SubSeq(errors, runStart + 1, Len(errors))
ParsesOk == JsonLoads(content).ok
NamingMessages == {ALPHANUM.message, PASCAL.message}
RecordsFor(identifier, message) ==
    {k \in 1..Len(RunErrors) : /\ RunErrors[k].identifier = identifier
                               /\ RunErrors[k].message = message}
RecordsOf(identifier) ==
    {k \in 1..Len(RunErrors) : RunErrors[k].identifier = identifier}
EvaluatedNames == {evaluated[i].identifier : i \in 1..Len(evaluated)}
NodeOf(uri) == get_node(parser.data, uri).node

\* the LocalName of the data model: the text after the last '/', and after
\* the last '#' when that segment contains one
LocalName(uri) ==
    LET seg == Last(Split(uri, "/")) IN
    IF Contains(seg, <<"#">>) THEN Last(Split(seg, "#")) ELSE seg

\* 'skos:Concept' is one of the type tokens (a string, or a member of a list)
IsConceptToken(node) ==
    /\ HasKey(node, K_type)
    /\ LET ty == Lookup(node, K_type) IN
        \/ ty.t = "str" /\ ty.s = Concept
        \/ ty.t = "arr" /\ \E i \in 1..Len(ty.items) : ty.items[i].v = StrVal(Concept)

\* @type is absent, a string or a sequence, as the data model has it
TypeInModel(node) ==
    HasKey(node, K_type) => Lookup(node, K_type).t \in {"str", "arr"}

Name_Invalid == <<"I","n","v","a","l","i","d","_","N","a","m","e">>
Name_lower == <<"l","o","w","e","r","C","o","n","c","e","p","t">>

\* C1: every Identifier yields the LocalName "after the last '/', after the
\* last '#' only when the segment has one", and a non-empty LocalName is
\* evaluated; the two scenario documents give one ALPHANUM error for
\* Invalid_Name and one PASCAL error for lowerConcept.
C1_LocalNameEvaluated ==
    (pc = "done" /\ ParsesOk) =>
        /\ \A i \in 1..Len(uris) :
              (uris[i].t = "str" /\ LocalName(uris[i].s) /= << >>)
                  => LocalName(uris[i].s) \in EvaluatedNames
        /\ content = D_InvalidName =>
              /\ Len(RunErrors) = 1
              /\ RunErrors[1].message = ALPHANUM.message
              /\ RunErrors[1].identifier = Name_Invalid
        /\ content = D_lowerConcept =>
              /\ Len(RunErrors) = 1
              /\ RunErrors[1].message = PASCAL.message
              /\ RunErrors[1].identifier = Name_lower

\* C2: a second validate() on the same instance and the same document leaves
\* the same errors sequence and returns the same boolean as the first.
C2_Idempotent ==
    (pc = "done" /\ runs = 2) => (errors = firstErrors /\ result = firstResult)

\* C3: the PascalCase rule is applied to an evaluated Identifier exactly when
\* skos:Concept is a whole type token of its graph node, @type being a string
\* or a sequence of strings.
C3_ConceptByToken ==
    \A i \in 1..Len(evaluated) :
        LET e == evaluated[i] IN
        (/\ TypeInModel(NodeOf(e.uri))
         /\ ReMatch(ALPHANUM, e.identifier)
         /\ ~ReMatch(PASCAL, e.identifier))
            => (RecordsFor(e.identifier, PASCAL.message) /= {}
                    <=> IsConceptToken(NodeOf(e.uri)))

\* C4: for a syntactically valid JSON document validate() never raises.
C4_OnlyInvalidJSONIsFatal ==
    ParsesOk => (pc /= "raised" /\ exc = "")

\* C5: on text that is not valid JSON, validate() returns False, nothing is
\* traversed or evaluated (no naming violation is recorded), and the call
\* records a single error with a non-empty message and the parser's line.
C5_InvalidJSON ==
    (pc = "done" /\ ~ParsesOk) =>
        /\ result = "False"
        /\ evaluated = << >>
        /\ \A k \in 1..Len(errors) : errors[k].message \notin NamingMessages
        /\ Len(RunErrors) = 1
        /\ RunErrors[1].message /= ""
        /\ RunErrors[1].message = "Invalid JSON: " \o decodeErr.msg
        /\ RunErrors[1].line = decodeErr.lineno
        /\ RunErrors[1].line = JsonLoads(content).lineno
        /\ RunErrors[1].identifier = << >>

C5_Witness ==
    /\ pc = "done"
    /\ ~ParsesOk
    /\ decodeErr.lineno = 3
    /\ Len(errors) = 1
    /\ errors[1].line = 3

\* index in uris of the first Identifier whose LocalName is identifier
FirstOccurrence(identifier) ==
    CHOOSE i \in 1..Len(uris) :
        /\ uris[i].t = "str" /\ get_identifier(uris[i].s) = identifier
        /\ \A j \in 1..(i - 1) :
              ~(uris[j].t = "str" /\ get_identifier(uris[j].s) = identifier)

Uri_vKilo == <<"h","/","v","#","K","i","l","o">>
Uri_wkilo == <<"h","/","w","#","k","i","l","o">>

\* C6: in one call each LocalName is evaluated at most once and is reported
\* at most once; the Identifier evaluated is the first one in pre-order (a
\* mapping's own @id before its nested values), and its records carry that
\* Identifier's line; later occurrences add nothing.
C6_Dedup ==
    /\ \A i, j \in 1..Len(RunErrors) :
          i /= j => RunErrors[i].identifier /= RunErrors[j].identifier
    /\ \A i, j \in 1..Len(evaluated) :
          i /= j => evaluated[i].identifier /= evaluated[j].identifier
    /\ \A i \in 1..Len(evaluated) :
          evaluated[i].uri = uris[FirstOccurrence(evaluated[i].identifier)].s
    /\ \A k \in 1..Len(RunErrors) :
          RunErrors[k].message \in NamingMessages =>
              /\ errSrc[runStart + k].uri =
                    uris[FirstOccurrence(RunErrors[k].identifier)].s
              /\ RunErrors[k].line =
                    get_line_number(parser.id_lines, errSrc[runStart + k].uri)
    /\ (content = D_preorder /\ pc = "done") =>
          /\ evaluated = << [uri |-> Uri_vKilo, identifier |-> get_identifier(Uri_vKilo)],
                            [uri |-> Uri_wkilo, identifier |-> get_identifier(Uri_wkilo)] >>
          /\ RunErrors = << >>

\* a later occurrence that would have failed on its own node was skipped
C6_Witness ==
    /\ pc = "done"
    /\ \E i \in 1..Len(uris) :
          LET u == uris[i].s
              id == get_identifier(u)
          IN  /\ id /= << >>
              /\ \A j \in 1..Len(evaluated) : evaluated[j].uri /= u
              /\ ~validate_naming_patterns(parser, u, id).ok
              /\ RecordsOf(id) = {}

\* rule 1 or rule 2 is violated by an evaluated [uri, identifier]
RuleViolated(e) ==
    \/ ~ReMatch(ALPHANUM, e.identifier)
    \/ IsConceptToken(NodeOf(e.uri)) /\ ~ReMatch(PASCAL, e.identifier)

\* C7: for valid JSON and a fresh validator, validate() returns True iff
\* errors is empty at the end; every distinct LocalName was evaluated, each
\* violating one has exactly one record, and every record is one of these.
C7_CompleteNotFailFast ==
    (pc = "done" /\ runs = 1 /\ ParsesOk) =>
        /\ (result = "True" <=> errors = << >>)
        /\ EvaluatedNames =
              {get_identifier(uris[i].s) : i \in 1..Len(uris)} \ {<< >>}
        /\ \A i \in 1..Len(evaluated) :
              RuleViolated(evaluated[i]) =>
                  Cardinality({k \in 1..Len(errors) :
                      errors[k].identifier = evaluated[i].identifier}) = 1
        /\ \A k \in 1..Len(errors) :
              /\ errors[k].message \in NamingMessages
              /\ errors[k].identifier \in EvaluatedNames
        /\ Len(errors) = Cardinality({i \in 1..Len(evaluated) :
              ~validate_naming_patterns(parser, evaluated[i].uri,
                                        evaluated[i].identifier).ok})

\* a violation found first did not keep a later one from being reported
C7_Witness ==
    /\ pc = "done"
    /\ runs = 1
    /\ result = "False"
    /\ Len(errors) = 2
    /\ errors[1].message = ALPHANUM.message
    /\ errors[2].message = PASCAL.message

\* C8: an evaluated LocalName that fails the alphanumeric pattern gets
\* exactly one "Must be alphanumeric..." record and no "Concepts must use
\* PascalCase" record, also when its node is a concept.
C8_RuleOrdering ==
    \A i \in 1..Len(evaluated) :
        LET id == evaluated[i].identifier IN
        ~ReMatch(ALPHANUM, id) =>
            /\ Cardinality(RecordsFor(id, ALPHANUM.message)) = 1
            /\ RecordsFor(id, PASCAL.message) = {}

C8_Witness ==
    \E i \in 1..Len(evaluated) :
        /\ ~ReMatch(ALPHANUM, evaluated[i].identifier)
        /\ IsConceptToken(NodeOf(evaluated[i].uri))
        /\ RecordsFor(evaluated[i].identifier, ALPHANUM.message) /= {}

\* the first character of a LocalName that passed rule 1, the optional
\* namespace prefix of rule 1 stripped
Initial(identifier) ==
    IF Len(identifier) > Len(Prefix) /\ SubSeq(identifier, 1, Len(Prefix)) = Prefix
    THEN identifier[Len(Prefix) + 1]
    ELSE identifier[1]

\* C9: a PASCAL error is recorded for an evaluated LocalName iff rule 1
\* passed, a top-level graph entry has exactly this Identifier, the @type of
\* the first such entry contains the token skos:Concept, and the LocalName
\* does not start with an uppercase letter; otherwise a LocalName that
\* passes rule 1 gets no error at all.
C9_PascalIff ==
    \A i \in 1..Len(evaluated) :
        LET e == evaluated[i]
            applies == /\ ReMatch(ALPHANUM, e.identifier)
                       /\ NodeOf(e.uri) /= EmptyDict
                       /\ IsConceptToken(NodeOf(e.uri))
                       /\ Initial(e.identifier) \notin Upper
        IN  TypeInModel(NodeOf(e.uri)) =>
                /\ RecordsFor(e.identifier, PASCAL.message) /= {} <=> applies
                /\ (ReMatch(ALPHANUM, e.identifier) /\ ~applies)
                      => RecordsOf(e.identifier) = {}

\* smallest 1-indexed line of the raw text that contains the marker and uri
SmallestIdLine(uri) ==
    LET lines == Split(content, "\n")
        hits == {n \in 1..Len(lines) :
                    Contains(lines[n], Marker) /\ Contains(lines[n], uri)}
    IN  IF hits = {} THEN 0
        ELSE CHOOSE n \in hits : \A m \in hits : n <= m

\* C10: the line of every naming-violation record is the smallest line
\* number whose text contains both "@id" and the full Identifier, 0 if none.
C10_LineAttribution ==
    \A k \in 1..Len(errors) :
        errors[k].message \in NamingMessages =>
            errors[k].line = SmallestIdLine(errSrc[k].uri)

Quoted(str) == <<"\"">> \o str \o <<"\"">>

\* the record carries an earlier line, where the Identifier is only a
\* substring of another one, not the line that declares it
C10_Witness ==
    \E k \in 1..Len(errors) :
        LET lines == Split(content, "\n")
            u == errSrc[k].uri
        IN  /\ errors[k].message \in NamingMessages
            /\ errors[k].line >= 1
            /\ ~Contains(lines[errors[k].line], Quoted(u))
            /\ \E n \in (errors[k].line + 1)..Len(lines) :
                  Contains(lines[n], Quoted(u))

====
